---- MODULE Spec2Model ----
(***************************************************************************)
(* A model of app.py: the WhatsApp work-hours calculator.                  *)
(*                                                                         *)
(* The uploaded text is parsed line by line into Events                    *)
(* (parse_custom_format), the Events are keyword-filtered, restricted to   *)
(* the 4 latest ISO weeks, grouped per (name, date) and paired greedily    *)
(* into the Daily Work Log (calculate_hours), which is rolled up into the  *)
(* Weekly Summary and the last-complete-week timesheet                     *)
(* (get_last_week_data).  The main script reports one of three outcomes.   *)
(*                                                                         *)
(* Text is modelled as sequences of one-character strings, a timestamp as  *)
(* [ord, sec]: the proleptic Gregorian ordinal of its date                 *)
(* (datetime.toordinal) and the second of the day.  Hours are kept in      *)
(* hundredths (8.5 hours is 850).                                          *)
(***************************************************************************)
EXTENDS Integers, Sequences, FiniteSets, TLC

VARIABLES
    file_text,       \* the uploaded text: a sequence of lines
    pc,              \* position of the script
    ln,              \* parse_custom_format: number of lines already read
    records,         \* parse_custom_format: the Events appended so far
    yielded,         \* history: positions of the lines that appended an Event
    df,              \* calculate_hours: the filtered and windowed Events
    keys,            \* calculate_hours: (name, date) groups still to visit
    cur,             \* calculate_hours: the (name, date) of the group in hand
    times,           \* calculate_hours: timestamps of the group, sorted
    messages,        \* calculate_hours: messages of the group, same order
    i,               \* calculate_hours: index of the pairing loop (0-based)
    iters,           \* history: iterations of the pairing loop on this group
    daily_records,   \* calculate_hours: rows of the Daily Work Log
    used,            \* history: for each row, the two events it was built from
    weekly_summary,  \* calculate_hours: rows of the Weekly Summary
    last_week_df,    \* get_last_week_data: rows of the timesheet
    outcome          \* what the main script showed

vars == <<file_text, pc, ln, records, yielded, df, keys, cur, times, messages,
          i, iters, daily_records, used, weekly_summary, last_week_df, outcome>>

----------------------------------------------------------------------------
(* Characters and strings                                                  *)

\* the characters of the model's texts, in code-point order
Alphabet ==
    <<" ", "!", ",", "-",
      "0", "1", "2", "3", "4", "5", "6", "7", "8", "9", ":",
      "A", "B", "C", "D", "E", "F", "G", "H", "I", "J", "K", "L", "M",
      "N", "O", "P", "Q", "R", "S", "T", "U", "V", "W", "X", "Y", "Z",
      "a", "b", "c", "d", "e", "f", "g", "h", "i", "j", "k", "l", "m",
      "n", "o", "p", "q", "r", "s", "t", "u", "v", "w", "x", "y", "z">>

CharCode ==
    [c \in {Alphabet[k] : k \in 1..Len(Alphabet)} |->
        CHOOSE k \in 1..Len(Alphabet) : Alphabet[k] = c]

IsDigit(c) == CharCode[c] \in 5..14

IsUpper(c) == CharCode[c] \in 16..41

IsLowerCase(c) == CharCode[c] \in 42..67

\* \w of the re module
IsWordChar(c) == IsDigit(c) \/ IsUpper(c) \/ IsLowerCase(c)

LowerChar(c) == IF IsUpper(c) THEN Alphabet[CharCode[c] + 26] ELSE c

UpperChar(c) == IF IsLowerCase(c) THEN Alphabet[CharCode[c] - 26] ELSE c

Lower(s) == [k \in 1..Len(s) |-> LowerChar(s[k])]

Upper(s) == [k \in 1..Len(s) |-> UpperChar(s[k])]

RECURSIVE LStrip(_)
LStrip(s) == IF s # <<>> /\ Head(s) = " " THEN LStrip(Tail(s)) ELSE s

RECURSIVE RStrip(_)
RStrip(s) ==
    IF s # <<>> /\ s[Len(s)] = " " THEN RStrip(SubSeq(s, 1, Len(s) - 1)) ELSE s

Strip(s) == RStrip(LStrip(s))

\* s < t in Python's string order
RECURSIVE StrLess(_, _)
StrLess(s, t) ==
    IF t = <<>> THEN FALSE
    ELSE IF s = <<>> THEN TRUE
    ELSE IF Head(s) # Head(t) THEN CharCode[Head(s)] < CharCode[Head(t)]
    ELSE StrLess(Tail(s), Tail(t))

\* x in s, for strings
Contains(s, x) ==
    \E k \in 1..(Len(s) - Len(x) + 1) : SubSeq(s, k, k + Len(x) - 1) = x

\* re.search(r'\bx\b', s): x occurs with a word boundary on both sides
ContainsWord(s, x) ==
    \E k \in 1..(Len(s) - Len(x) + 1) :
        /\ SubSeq(s, k, k + Len(x) - 1) = x
        /\ (k = 1 \/ ~IsWordChar(s[k - 1]))
        /\ (k + Len(x) - 1 = Len(s) \/ ~IsWordChar(s[k + Len(x)]))

KW_in == <<"i", "n">>
KW_out == <<"o", "u", "t">>
KW_lunch == <<"l", "u", "n", "c", "h">>
KW_back == <<"b", "a", "c", "k">>
KW_return == <<"r", "e", "t", "u", "r", "n">>

----------------------------------------------------------------------------
(* Calendar arithmetic (datetime, timedelta, isocalendar, strftime)        *)

IsLeap(y) == y % 4 = 0 /\ (y % 100 # 0 \/ y % 400 = 0)

DaysInMonth(y, m) ==
    IF m = 2 THEN (IF IsLeap(y) THEN 29 ELSE 28)
    ELSE IF m \in {4, 6, 9, 11} THEN 30 ELSE 31

DaysBeforeYear(y) ==
    (y - 1) * 365 + (y - 1) \div 4 - (y - 1) \div 100 + (y - 1) \div 400

RECURSIVE DaysBeforeMonth(_, _)
DaysBeforeMonth(y, m) ==
    IF m = 1 THEN 0 ELSE DaysBeforeMonth(y, m - 1) + DaysInMonth(y, m - 1)

\* date(y, m, d).toordinal()
Ordinal(y, m, d) == DaysBeforeYear(y) + DaysBeforeMonth(y, m) + d

YearOfOrd(n) ==
    LET est == (n * 400) \div 146097
    IN  CHOOSE y \in (est - 1)..(est + 2) :
            DaysBeforeYear(y) < n /\ n <= DaysBeforeYear(y + 1)

\* date.fromordinal(n) as <<year, month, day>>
FromOrdinal(n) ==
    LET y == YearOfOrd(n)
        r == n - DaysBeforeYear(y)
        m == CHOOSE mm \in 1..12 :
                 DaysBeforeMonth(y, mm) < r
                 /\ r <= DaysBeforeMonth(y, mm) + DaysInMonth(y, mm)
    IN  <<y, m, r - DaysBeforeMonth(y, m)>>

\* date.weekday(): Monday is 0
Weekday(n) == (n + 6) % 7

IsoWeek1Monday(y) ==
    LET firstday == Ordinal(y, 1, 1)
        firstweekday == Weekday(firstday)
    IN  IF firstweekday > 3 THEN firstday - firstweekday + 7
        ELSE firstday - firstweekday

\* isocalendar() as <<ISO year, ISO week>>
IsoYearWeek(n) ==
    LET y == YearOfOrd(n)
    IN  IF n < IsoWeek1Monday(y)
        THEN <<y - 1, (n - IsoWeek1Monday(y - 1)) \div 7 + 1>>
        ELSE IF n >= IsoWeek1Monday(y + 1) THEN <<y + 1, 1>>
        ELSE <<y, (n - IsoWeek1Monday(y)) \div 7 + 1>>

----------------------------------------------------------------------------
(* Numbers as text                                                         *)

DigitChar(d) == Alphabet[5 + d]

DigitVal(c) == CharCode[c] - 5

RECURSIVE NumVal(_)
NumVal(ds) ==
    IF ds = <<>> THEN 0
    ELSE 10 * NumVal(SubSeq(ds, 1, Len(ds) - 1)) + DigitVal(ds[Len(ds)])

\* '%02d' % n
Pad2(n) == <<DigitChar(n \div 10), DigitChar(n % 10)>>

\* '%04d' % n
Pad4(n) == Pad2(n \div 100) \o Pad2(n % 100)

MonthAbbr ==
    << <<"J", "a", "n">>, <<"F", "e", "b">>, <<"M", "a", "r">>,
       <<"A", "p", "r">>, <<"M", "a", "y">>, <<"J", "u", "n">>,
       <<"J", "u", "l">>, <<"A", "u", "g">>, <<"S", "e", "p">>,
       <<"O", "c", "t">>, <<"N", "o", "v">>, <<"D", "e", "c">> >>

DayName ==
    << <<"M", "o", "n", "d", "a", "y">>,
       <<"T", "u", "e", "s", "d", "a", "y">>,
       <<"W", "e", "d", "n", "e", "s", "d", "a", "y">>,
       <<"T", "h", "u", "r", "s", "d", "a", "y">>,
       <<"F", "r", "i", "d", "a", "y">>,
       <<"S", "a", "t", "u", "r", "d", "a", "y">>,
       <<"S", "u", "n", "d", "a", "y">> >>

\* strftime('%b %d') of the date with ordinal n
FmtMonthDay(n) ==
    LET ymd == FromOrdinal(n) IN MonthAbbr[ymd[2]] \o <<" ">> \o Pad2(ymd[3])

\* strftime('%b %d, %Y')
FmtDate(n) ==
    FmtMonthDay(n) \o <<",", " ">> \o Pad4(FromOrdinal(n)[1])

\* strftime('%A')
FmtDay(n) == DayName[Weekday(n) + 1]

\* strftime('%I:%M %p') of a second of the day
FmtClock(sec) ==
    LET h == sec \div 3600
        h12 == IF h % 12 = 0 THEN 12 ELSE h % 12
    IN  Pad2(h12) \o <<":">> \o Pad2((sec % 3600) \div 60) \o <<" ">>
        \o (IF h < 12 THEN <<"A", "M">> ELSE <<"P", "M">>)

\* get_week_range(date)[2]: the week label
get_week_range(n) ==
    LET monday == n - Weekday(n)
        sunday == monday + 6
    IN  FmtMonthDay(monday) \o <<" ", "-", " ">> \o FmtMonthDay(sunday)
        \o <<" ">> \o Pad4(FromOrdinal(sunday)[1])

\* pd.to_datetime of a 'Mon DD, YYYY' text, as the ordinal of the date
to_datetime(s) ==
    LET m == CHOOSE mm \in 1..12 : MonthAbbr[mm] = SubSeq(s, 1, 3)
    IN  Ordinal(NumVal(SubSeq(s, 9, 12)), m, NumVal(SubSeq(s, 5, 6)))

----------------------------------------------------------------------------
(* parse_custom_format                                                     *)

(* A line is kept as the pieces the pattern of line 15 looks at:           *)
(*   br    whether it begins "[" date ", " time "] " name ": " message;    *)
(*   mm, dd, yy, hh, mi, ss   the digit runs of the date and the time      *)
(*         (ss is empty when the time has no seconds);                     *)
(*   sp    the text between the time and the AM/PM marker;                 *)
(*   ap    the two characters of the marker;                               *)
(*   name, msg   the sender and the message.                               *)

Whitespace == {" ", "NBSP", "NNBSP"}

APChars == {"A", "P", "M", "a", "p", "m"}

\* re.match(pattern, line)
StructMatch(l) ==
    /\ l.br
    /\ Len(l.mm) \in 1..2 /\ Len(l.dd) \in 1..2 /\ Len(l.yy) \in 2..4
    /\ Len(l.hh) \in 1..2 /\ Len(l.mi) = 2 /\ Len(l.ss) \in {0, 2}
    /\ l.sp \in Whitespace \cup {""}
    /\ Len(l.ap) = 2 /\ l.ap[1] \in APChars /\ l.ap[2] \in APChars

\* the directives of strptime, each on the whole digit run it must consume
Dir_m(ds) == Len(ds) \in 1..2 /\ NumVal(ds) \in 1..12
Dir_d(ds) == Len(ds) \in 1..2 /\ NumVal(ds) \in 1..31
Dir_y(ds) == Len(ds) = 2
Dir_I(ds) == Len(ds) \in 1..2 /\ NumVal(ds) \in 1..12
Dir_M(ds) == Len(ds) \in 1..2 /\ NumVal(ds) \in 0..59
Dir_S(ds) == Len(ds) \in 1..2 /\ NumVal(ds) \in 0..61
Dir_p(ap) == Upper(ap) \in {<<"A", "M">>, <<"P", "M">>}

\* %y: 69..99 are 1969..1999, 00..68 are 2000..2068
Year_y(ds) == IF NumVal(ds) >= 69 THEN 1900 + NumVal(ds) ELSE 2000 + NumVal(ds)

\* datetime.strptime(timestamp_str, "%m/%d/%y %I:%M %p") raises no ValueError
StrptimeNoSec(l) ==
    /\ Dir_m(l.mm) /\ Dir_d(l.dd) /\ Dir_y(l.yy)
    /\ l.sp \in Whitespace
    /\ Dir_I(l.hh) /\ Dir_M(l.mi) /\ l.ss = <<>>
    /\ Dir_p(l.ap)
    /\ NumVal(l.dd) <= DaysInMonth(Year_y(l.yy), NumVal(l.mm))

\* datetime.strptime(timestamp_str, "%m/%d/%y %I:%M:%S %p") raises none
StrptimeSec(l) ==
    /\ Dir_m(l.mm) /\ Dir_d(l.dd) /\ Dir_y(l.yy)
    /\ l.sp \in Whitespace
    /\ Dir_I(l.hh) /\ Dir_M(l.mi) /\ l.ss # <<>> /\ Dir_S(l.ss)
    /\ Dir_p(l.ap)
    /\ NumVal(l.dd) <= DaysInMonth(Year_y(l.yy), NumVal(l.mm))
    /\ NumVal(l.ss) <= 59

\* the datetime built by whichever format accepted the text
Timestamp(l) ==
    LET h12 == NumVal(l.hh) % 12
        h == IF Upper(l.ap) = <<"P", "M">> THEN h12 + 12 ELSE h12
    IN  [ord |-> Ordinal(Year_y(l.yy), NumVal(l.mm), NumVal(l.dd)),
         sec |-> h * 3600 + NumVal(l.mi) * 60 + NumVal(l.ss)]

\* the record appended at lines 27-31
EventOf(l) ==
    [name |-> Strip(l.name), timestamp |-> Timestamp(l),
     message |-> Lower(Strip(l.msg))]

\* the line appends a record: it matches and one of the two formats parses
LineYields(l) == StructMatch(l) /\ (StrptimeNoSec(l) \/ StrptimeSec(l))

----------------------------------------------------------------------------
(* calculate_hours                                                         *)

\* the number of latest ISO weeks kept
WindowWeeks == 4

\* str.contains(r'\bin\b|\bout\b|\blunch\b|\bback\b|\breturn\b')
KeywordMatch(m) ==
    \/ ContainsWord(m, KW_in) \/ ContainsWord(m, KW_out)
    \/ ContainsWord(m, KW_lunch) \/ ContainsWord(m, KW_back)
    \/ ContainsWord(m, KW_return)

KeywordFilter(rs) == SelectSeq(rs, LAMBDA e : KeywordMatch(e.message))

\* the 'year' and 'week' columns of an event
YearWeek(e) == IsoYearWeek(e.timestamp.ord)

\* sort_values(['year', 'week'], ascending=False) puts a before b
YWBefore(a, b) == a[1] > b[1] \/ (a[1] = b[1] /\ a[2] > b[2])

\* sort_values(..., ascending=False).head(n) of a set of (year, week) pairs
RECURSIVE SortDescHead(_, _)
SortDescHead(S, n) ==
    IF n = 0 \/ S = {} THEN <<>>
    ELSE LET first == CHOOSE p \in S : \A q \in S \ {p} : YWBefore(p, q)
         IN  <<first>> \o SortDescHead(S \ {first}, n - 1)

\* faulty variant: ascending=False forgotten, the 4 oldest weeks are kept
RECURSIVE SortAscHead(_, _)
SortAscHead(S, n) ==
    IF n = 0 \/ S = {} THEN <<>>
    ELSE LET first == CHOOSE p \in S : \A q \in S \ {p} : YWBefore(q, p)
         IN  <<first>> \o SortAscHead(S \ {first}, n - 1)

latest_weeks_oldest(f) ==
    SortAscHead({YearWeek(f[k]) : k \in 1..Len(f)}, WindowWeeks)

latest_weeks(f) ==
    SortDescHead({YearWeek(f[k]) : k \in 1..Len(f)}, WindowWeeks)

\* df.merge(latest_weeks, on=['year', 'week'])
MergeWeeks(f, lw) ==
    SelectSeq(f, LAMBDA e : \E k \in 1..Len(lw) : lw[k] = YearWeek(e))

\* lines 42-48
Windowed(rs) ==
    LET f == KeywordFilter(rs) IN MergeWeeks(f, latest_weeks(f))

\* the order in which groupby(['name', 'date']) visits its groups
KeyBefore(a, b) == StrLess(a[1], b[1]) \/ (a[1] = b[1] /\ a[2] < b[2])

RECURSIVE SortKeys(_)
SortKeys(S) ==
    IF S = {} THEN <<>>
    ELSE LET first == CHOOSE a \in S : \A b \in S \ {a} : KeyBefore(a, b)
         IN  <<first>> \o SortKeys(S \ {first})

GroupKeys(d) ==
    SortKeys({<<d[k].name, d[k].timestamp.ord>> : k \in 1..Len(d)})

\* the rows of one group, in the order of the frame
GroupRows(d, key) ==
    SelectSeq(d, LAMBDA e : e.name = key[1] /\ e.timestamp.ord = key[2])

TsLess(a, b) == a.ord < b.ord \/ (a.ord = b.ord /\ a.sec < b.sec)

\* faulty variant: the group sorted latest first
SortedOrders_desc(g) ==
    {p \in [1..Len(g) -> 1..Len(g)] :
        /\ \A a, b \in 1..Len(g) : a # b => p[a] # p[b]
        /\ \A a \in 1..(Len(g) - 1) :
              ~TsLess(g[p[a]].timestamp, g[p[a + 1]].timestamp)}

\* the orders sort_values(by='timestamp') may return: the default sort is
\* not stable, so rows with equal timestamps may come out in any order
SortedOrders(g) ==
    {p \in [1..Len(g) -> 1..Len(g)] :
        /\ \A a, b \in 1..Len(g) : a # b => p[a] # p[b]
        /\ \A a \in 1..(Len(g) - 1) :
              ~TsLess(g[p[a + 1]].timestamp, g[p[a]].timestamp)}

\* any(x in msg1 for x in ['in', 'back', 'return'])
InLike(m) ==
    Contains(m, KW_in) \/ Contains(m, KW_back) \/ Contains(m, KW_return)

\* any(x in msg2 for x in ['out', 'lunch'])
OutLike(m) == Contains(m, KW_out) \/ Contains(m, KW_lunch)

\* the test of line 60
PairTest(m1, m2) == InLike(m1) /\ OutLike(m2)

\* 2^e modulo 225
RECURSIVE Pow2Mod225(_)
Pow2Mod225(e) == IF e = 0 THEN 1 ELSE (2 * Pow2Mod225(e - 1)) % 225

\* the binary exponent k of seconds / 225: 2^k <= seconds / 225 < 2^(k + 1)
BinExp225(seconds) ==
    CHOOSE k \in -8..8 :
        IF k >= 0
        THEN 225 * 2^k <= seconds /\ seconds < 225 * 2^(k + 1)
        ELSE 225 <= seconds * 2^(0 - k) /\ seconds * 2^(0 - k) < 450

\* the float seconds / 3600 against the exact quotient: -1 below, 0 equal,
\* 1 above.  3600 is 16 * 225, so the float is seconds / 225 rounded to 53
\* bits and scaled; what the 53 bits leave over is seconds * 2^(52 - k)
\* modulo 225, and the float is rounded up when that is more than half.
QuotientError(seconds) ==
    LET rem == ((seconds % 225) * Pow2Mod225(52 - BinExp225(seconds))) % 225
    IN  IF rem = 0 THEN 0 ELSE IF 2 * rem < 225 THEN -1 ELSE 1

\* round(seconds / 3600, 2) in hundredths of an hour, for less than a day.
\* round() rounds the float's exact value, half to even: away from a tie
\* (seconds % 36 = 18) the float's error cannot change the result; at a tie
\* the side the float fell on decides, and an exact float goes to even.
RoundHours(seconds) ==
    LET down == (seconds * 100) \div 3600
    IN  IF seconds % 36 # 18 THEN (seconds * 100 + 1800) \div 3600
        ELSE IF QuotientError(seconds) = -1 THEN down
        ELSE IF QuotientError(seconds) = 1 THEN down + 1
        ELSE IF down % 2 = 0 THEN down ELSE down + 1

DurationSeconds(t1, t2) == (t2.ord - t1.ord) * 86400 + t2.sec - t1.sec

\* the record appended at lines 65-73
DailyRow(name, date, t1, t2) ==
    [Name |-> name,
     Date |-> FmtDate(date),
     Day |-> FmtDay(t1.ord),
     Week |-> get_week_range(t1.ord),
     ClockIn |-> FmtClock(t1.sec),
     ClockOut |-> FmtClock(t2.sec),
     Hours |-> RoundHours(DurationSeconds(t1, t2))]

\* faulty variants of the two increments: a pair consumes only its first event; a
\* failed test discards both events
AfterPair_one(k) == k + 1
AfterSkip_both(k) == k + 2

\* i += 2 after a pair, i += 1 otherwise
AfterPair(k) == k + 2
AfterSkip(k) == k + 1

(* 'Hours Worked' holds float64 values and pandas sums them in float64.  Every
   value met here is a whole multiple of 2^-60 hours (float64 values from
   0.01 up are multiples of 2^-59), so a float is written [neg, mag]: its
   sign, and that multiple in digits to the base 2^15, least significant
   first and without leading zeros.                                          *)

Base == 2^15

RECURSIVE Trim(_)
Trim(b) ==
    IF b = <<>> THEN <<>>
    ELSE IF b[Len(b)] = 0 THEN Trim(SubSeq(b, 1, Len(b) - 1)) ELSE b

RECURSIVE NatLimbs(_)
NatLimbs(n) == IF n = 0 THEN <<>> ELSE <<n % Base>> \o NatLimbs(n \div Base)

Zeros(n) == [k \in 1..n |-> 0]

Rest(b) == IF b = <<>> THEN <<>> ELSE Tail(b)

Low(b) == IF b = <<>> THEN 0 ELSE Head(b)

\* a + b + c, c the carry
RECURSIVE AddLimbs(_, _, _)
AddLimbs(a, b, c) ==
    IF a = <<>> /\ b = <<>> THEN (IF c = 1 THEN <<1>> ELSE <<>>)
    ELSE LET s == Low(a) + Low(b) + c
         IN  <<s % Base>> \o AddLimbs(Rest(a), Rest(b), s \div Base)

\* a - b - w for a >= b + w, w the borrow; leading zeros are left in
RECURSIVE SubLimbs(_, _, _)
SubLimbs(a, b, w) ==
    IF a = <<>> THEN <<>>
    ELSE LET d == Head(a) - Low(b) - w
         IN  <<d % Base>> \o SubLimbs(Tail(a), Rest(b), IF d < 0 THEN 1 ELSE 0)

RECURSIVE LessLimbs(_, _)
LessLimbs(a, b) ==
    IF Len(a) # Len(b) THEN Len(a) < Len(b)
    ELSE IF a = <<>> THEN FALSE
    ELSE IF a[Len(a)] # b[Len(b)] THEN a[Len(a)] < b[Len(b)]
    ELSE LessLimbs(SubSeq(a, 1, Len(a) - 1), SubSeq(b, 1, Len(b) - 1))

FZero == [neg |-> FALSE, mag |-> <<>>]

FNeg(x) == [neg |-> ~x.neg /\ x.mag # <<>>, mag |-> x.mag]

\* x + y before it is rounded
ExactAdd(x, y) ==
    IF x.neg = y.neg THEN [neg |-> x.neg, mag |-> AddLimbs(x.mag, y.mag, 0)]
    ELSE IF LessLimbs(x.mag, y.mag)
    THEN [neg |-> y.neg, mag |-> Trim(SubLimbs(y.mag, x.mag, 0))]
    ELSE LET m == Trim(SubLimbs(x.mag, y.mag, 0))
         IN  [neg |-> x.neg /\ m # <<>>, mag |-> m]

\* the number of binary digits of m
BinaryDigits(m) ==
    IF m = <<>> THEN 0
    ELSE 15 * (Len(m) - 1) + (CHOOSE n \in 1..15 : 2^(n - 1) <= m[Len(m)] /\ m[Len(m)] < 2^n)

\* m rounded to the 53 significant binary digits of a float64, to nearest and
\* half to even; sticky says that a nonzero part below the last digit of m
\* was cut.  d binary digits go: a whole limbs and b digits of the next.
RoundLimbs(m, sticky) ==
    IF BinaryDigits(m) <= 53 THEN m
    ELSE LET d == BinaryDigits(m) - 53
             a == d \div 15
             b == d % 15
             cut == m[a + 1] % 2^b
             half == IF b > 0 THEN cut \div 2^(b - 1) = 1
                     ELSE m[a] \div 2^14 = 1
             rest == \/ sticky
                     \/ IF b > 0
                        THEN cut % 2^(b - 1) # 0 \/ \E k \in 1..a : m[k] # 0
                        ELSE m[a] % 2^14 # 0 \/ \E k \in 1..(a - 1) : m[k] # 0
             odd == (m[a + 1] \div 2^b) % 2 = 1
             kept == [k \in 1..Len(m) |->
                        IF k <= a THEN 0
                        ELSE IF k = a + 1 THEN m[k] - cut ELSE m[k]]
         IN  IF half /\ (rest \/ odd)
             THEN AddLimbs(kept, Zeros(a) \o <<2^b>>, 0)
             ELSE kept

\* float64 addition and subtraction
FAdd(x, y) ==
    LET s == ExactAdd(x, y) IN [neg |-> s.neg, mag |-> RoundLimbs(s.mag, FALSE)]

FSub(x, y) == FAdd(x, FNeg(y))

\* the limbs b[1..k] divided by 100, from the top limb down, rem carried in
RECURSIVE DivLimbs100(_, _, _)
DivLimbs100(b, k, rem) ==
    IF k = 0 THEN [q |-> <<>>, r |-> rem]
    ELSE LET acc == rem * Base + b[k]
             low == DivLimbs100(b, k - 1, acc % 100)
         IN  [q |-> Append(low.q, acc \div 100), r |-> low.r]

\* the float64 that round(x, 2) returns for h hundredths: the float nearest to
\* h / 100.  h * 2^60 / 100 has at least 54 binary digits, and what the
\* division leaves over is below the last of them.
HoursFloat(h) ==
    LET num == Zeros(4) \o NatLimbs(IF h < 0 THEN 0 - h ELSE h)
        d == DivLimbs100(num, Len(num), 0)
    IN  IF h = 0 THEN FZero
        ELSE [neg |-> h < 0, mag |-> RoundLimbs(Trim(d.q), d.r # 0)]

\* pandas' group_sum after the first n values of one group, in row order: the
\* running sum sumx and Kahan's compensation comp
RECURSIVE group_sum(_, _)
group_sum(vals, n) ==
    IF n = 0 THEN [sumx |-> FZero, comp |-> FZero]
    ELSE LET prev == group_sum(vals, n - 1)
             y == FSub(vals[n], prev.comp)
             t == FAdd(prev.sumx, y)
         IN  [sumx |-> t, comp |-> FSub(FSub(t, prev.sumx), y)]

\* .sum() of the 'Hours Worked' of the rows of one group: the final sumx
SumHours(rows) ==
    group_sum([k \in 1..Len(rows) |-> HoursFloat(rows[k].Hours)], Len(rows)).sumx

NameWeekBefore(a, b) == StrLess(a[1], b[1]) \/ (a[1] = b[1] /\ StrLess(a[2], b[2]))

RECURSIVE SortNameWeek(_)
SortNameWeek(S) ==
    IF S = {} THEN <<>>
    ELSE LET first == CHOOSE a \in S : \A b \in S \ {a} : NameWeekBefore(a, b)
         IN  <<first>> \o SortNameWeek(S \ {first})

\* faulty variant: the rows of the person in every week
SummaryGroup_name(daily, key) == SelectSeq(daily, LAMBDA r : r.Name = key[1])

\* the rows summed into one Weekly Summary row
SummaryGroup(daily, key) ==
    SelectSeq(daily, LAMBDA r : r.Name = key[1] /\ r.Week = key[2])

\* lines 80-87: groupby(['Name', 'Week'])['Hours Worked'].sum()
WeeklySummary(daily) ==
    LET ks == SortNameWeek({<<daily[k].Name, daily[k].Week>> : k \in 1..Len(daily)})
    IN  [k \in 1..Len(ks) |->
            [Name |-> ks[k][1], Week |-> ks[k][2],
             TotalHours |-> SumHours(SummaryGroup(daily, ks[k]))]]

----------------------------------------------------------------------------
(* get_last_week_data                                                      *)

\* the 'Year' and 'Week' columns of temp_df, from the parsed 'Date'
RowYearWeek(r) == IsoYearWeek(to_datetime(r.Date))

\* set(x.dt.weekday) of one (Year, Week) group
WeekdayCoverage(daily, yw) ==
    {Weekday(to_datetime(daily[k].Date)) :
        k \in {j \in 1..Len(daily) : RowYearWeek(daily[j]) = yw}}

\* faulty variant: every week with a row counts as complete
complete_weeks_any(daily) == {RowYearWeek(daily[k]) : k \in 1..Len(daily)}

\* lines 101-108
complete_weeks(daily) ==
    {yw \in {RowYearWeek(daily[k]) : k \in 1..Len(daily)} :
        (0..6) \subseteq WeekdayCoverage(daily, yw)}

\* line 113
LatestComplete(daily) == SortDescHead(complete_weeks(daily), 1)[1]

\* lines 115-117
LastWeekRows(daily, yw) == SelectSeq(daily, LAMBDA r : RowYearWeek(r) = yw)

\* faulty variant: the total on every row of the person
TotalCell_all(rows, k) ==
    <<SumHours(SelectSeq(rows, LAMBDA r : r.Name = rows[k].Name))>>

\* lines 122-127: the person's total on the person's first row, '' on the
\* others; a shown total is <<total>>, an empty cell is <<>>
TotalCell(rows, k) ==
    IF \E j \in 1..(k - 1) : rows[j].Name = rows[k].Name THEN <<>>
    ELSE <<SumHours(SelectSeq(rows, LAMBDA r : r.Name = rows[k].Name))>>

\* one row of the returned frame: line 97 overwrote 'Week' with the ISO week
\* number and line 128 drops it, so the week label is not among the columns
TimesheetRow(rows, k) ==
    [Name |-> rows[k].Name,
     Date |-> rows[k].Date,
     Day |-> rows[k].Day,
     ClockIn |-> rows[k].ClockIn,
     ClockOut |-> rows[k].ClockOut,
     Hours |-> rows[k].Hours,
     TotalHoursThisWeek |-> TotalCell(rows, k)]

get_last_week_data(daily) ==
    IF daily = <<>> \/ complete_weeks(daily) = {} THEN <<>>
    ELSE LET rows == LastWeekRows(daily, LatestComplete(daily))
         IN  [k \in 1..Len(rows) |-> TimesheetRow(rows, k)]

----------------------------------------------------------------------------
(* Main execution                                                          *)

\* faulty variant: the test made on the keyword-filtered frame
FormatIssueTest_filtered(rs) == KeywordFilter(rs) = <<>>

\* df.empty or "message" not in df.columns
FormatIssueTest(rs) == rs = <<>>

\* daily_df.empty
NoDataTest(daily) == daily = <<>>

----------------------------------------------------------------------------
(* The uploaded texts the model is run on                                  *)

Txt_in == <<"i", "n">>
Txt_out == <<"o", "u", "t">>
Txt_back == <<"b", "a", "c", "k">>
Txt_lunch == <<"l", "u", "n", "c", "h">>
Txt_IN_sp == <<" ", "I", "N", " ">>
Txt_heading_out == <<"h", "e", "a", "d", "i", "n", "g", " ", "o", "u", "t">>
Txt_lunch_out_back ==
    <<"l", "u", "n", "c", "h", " ", "o", "u", "t", " ", "b", "a", "c", "k">>
Txt_irontown == <<"i", "r", "o", "n", "t", "o", "w", "n">>
Txt_hello == <<"h", "e", "l", "l", "o">>

Alice == <<"A", "l", "i", "c", "e">>
Bob == <<"B", "o", "b">>

\* a well-formed line "[MM/DD/YY, HH:MM(:SS) AM] name: msg" for a timestamp
MkLine(name, ord, sec, msg) ==
    LET ymd == FromOrdinal(ord)
        h == sec \div 3600
        h12 == IF h % 12 = 0 THEN 12 ELSE h % 12
    IN  [br |-> TRUE,
         mm |-> Pad2(ymd[2]), dd |-> Pad2(ymd[3]), yy |-> Pad2(ymd[1] % 100),
         hh |-> Pad2(h12), mi |-> Pad2((sec % 3600) \div 60),
         ss |-> IF sec % 60 = 0 THEN <<>> ELSE Pad2(sec % 60),
         sp |-> " ",
         ap |-> IF h < 12 THEN <<"A", "M">> ELSE <<"P", "M">>,
         name |-> name, msg |-> msg]

\* a line that is no message header (a continuation line, a system notice)
JunkLine ==
    [br |-> FALSE, mm |-> <<>>, dd |-> <<>>, yy |-> <<>>, hh |-> <<>>,
     mi |-> <<>>, ss |-> <<>>, sp |-> "", ap |-> <<>>, name |-> <<>>,
     msg |-> Txt_hello]

\* Monday 6 January 2025
Day0 == Ordinal(2025, 1, 6)

Clock(h, m, s) == h * 3600 + m * 60 + s

\* all sequences over S of length at most n
SeqsUpTo(S, n) == UNION {[1..k -> S] : k \in 0..n}

Txt_lob == Txt_lunch_out_back

\* texts every family includes: empty, no header, one event, one pair,
\* the messages in, in, out, a day with two pairs, and a day whose two
\* durations (54 s, 450 s) are exact ties of the rounding
Baseline ==
    {<<>>,
     <<JunkLine>>,
     <<MkLine(Alice, Day0, Clock(9, 0, 0), Txt_in)>>,
     <<MkLine(Alice, Day0, Clock(9, 0, 0), Txt_in), JunkLine,
       MkLine(Alice, Day0, Clock(17, 30, 0), Txt_out)>>,
     <<MkLine(Alice, Day0, Clock(9, 0, 0), Txt_in),
       MkLine(Alice, Day0, Clock(9, 30, 0), Txt_in),
       MkLine(Alice, Day0, Clock(17, 30, 0), Txt_out)>>,
     <<MkLine(Alice, Day0, Clock(9, 0, 0), Txt_in),
       MkLine(Alice, Day0, Clock(12, 0, 0), Txt_lob),
       MkLine(Alice, Day0, Clock(13, 0, 0), Txt_lob),
       MkLine(Alice, Day0, Clock(17, 30, 0), Txt_out)>>,
     <<MkLine(Alice, Day0, Clock(9, 0, 0), Txt_in),
       MkLine(Alice, Day0, Clock(9, 0, 54), Txt_out),
       MkLine(Alice, Day0, Clock(13, 0, 0), Txt_back),
       MkLine(Alice, Day0, Clock(13, 7, 30), Txt_lunch)>>,
     <<MkLine(Alice, Day0, Clock(9, 0, 0), Txt_in),
       MkLine(Alice, Day0, Clock(9, 6, 0), Txt_out),
       MkLine(Alice, Day0, Clock(13, 0, 0), Txt_back),
       MkLine(Alice, Day0, Clock(13, 12, 0), Txt_lunch)>>}

(* Family 1: one person, one day, any order of a few lines *)
MaxLines == 3

PairTimes == {Clock(9, 0, 0), Clock(17, 20, 0)}

PairMessages ==
    {Txt_in, Txt_out, Txt_IN_sp, Txt_heading_out, Txt_lunch_out_back,
     Txt_irontown}

PairPool ==
    {MkLine(Alice, Day0, t, m) : t \in PairTimes, m \in PairMessages}
    \cup {MkLine(Bob, Day0, Clock(9, 0, 0), Txt_back),
          MkLine(Bob, Day0, Clock(17, 20, 0), Txt_lunch),
          JunkLine}

PairTexts == SeqsUpTo(PairPool, MaxLines) \cup Baseline

(* Family 2: single lines and pairs of lines whose date and time text varies *)
MaxParseLines == 2

GoodLine == MkLine(Alice, Day0, Clock(9, 0, 20), Txt_in)

ParsePool ==
    {GoodLine,
     MkLine(Bob, Day0, Clock(21, 5, 0), Txt_IN_sp),
     [GoodLine EXCEPT !.mm = <<"1">>, !.dd = <<"6">>, !.hh = <<"9">>],
     [GoodLine EXCEPT !.yy = <<"2", "0", "2", "5">>],
     [GoodLine EXCEPT !.yy = <<"2", "0", "2", "5">>, !.ss = <<>>],
     [GoodLine EXCEPT !.yy = <<"2", "0", "5">>],
     [GoodLine EXCEPT !.yy = <<"6", "9">>],
     [GoodLine EXCEPT !.yy = <<"2", "5", "2", "5", "2">>],
     [GoodLine EXCEPT !.sp = ""],
     [GoodLine EXCEPT !.sp = "NNBSP"],
     [GoodLine EXCEPT !.sp = "NBSP", !.ap = <<"p", "m">>],
     [GoodLine EXCEPT !.ap = <<"M", "M">>],
     [GoodLine EXCEPT !.hh = <<"1", "3">>],
     [GoodLine EXCEPT !.hh = <<"1", "2">>],
     [GoodLine EXCEPT !.hh = <<"0">>],
     [GoodLine EXCEPT !.mi = <<"7", "5">>],
     [GoodLine EXCEPT !.ss = <<"6", "0">>],
     [GoodLine EXCEPT !.mm = <<"1", "3">>],
     [GoodLine EXCEPT !.mm = <<"0", "2">>, !.dd = <<"3", "0">>],
     [GoodLine EXCEPT !.mm = <<"0", "2">>, !.dd = <<"2", "9">>,
                      !.yy = <<"2", "4">>],
     JunkLine}

ParseTexts == SeqsUpTo(ParsePool, MaxParseLines) \cup Baseline

(* Family 3: consecutive weeks, each with a pair, only chat, or nothing *)
NumWinWeeks == 6

\* Monday 9 December 2024
WinBase == Ordinal(2024, 12, 9)

WinStates == {"none", "pair", "chat"}

\* the lines of week w: on its Tuesday, by Alice or Bob in turn
WinWeekLines(w, st) ==
    LET day == WinBase + 7 * w + 1
        who == IF w % 2 = 0 THEN Alice ELSE Bob
    IN  IF st = "pair"
        THEN <<MkLine(who, day, Clock(9, 0, 0), Txt_in),
               MkLine(who, day, Clock(17, 20, 0), Txt_out)>>
        ELSE IF st = "chat"
        THEN <<MkLine(who, day, Clock(9, 0, 0), Txt_hello)>>
        ELSE <<>>

RECURSIVE WinText(_, _)
WinText(f, w) ==
    IF w < 0 THEN <<>> ELSE WinText(f, w - 1) \o WinWeekLines(w, f[w])

WinTexts ==
    {WinText(f, NumWinWeeks - 1) : f \in [0..(NumWinWeeks - 1) -> WinStates]}
    \cup Baseline

(* Family 4: consecutive weeks, each covered fully, partly, or not at all *)
NumCovWeeks == 3

\* Monday 23 December 2024
CovBase == Ordinal(2024, 12, 23)

CovPatterns == {"none", "full", "split", "gap"}

\* the lines of weekday d (0 is Monday) of the week starting at monday
CovDayLines(monday, d, pat) ==
    LET alice == <<MkLine(Alice, monday + d, Clock(9, 0, 0), Txt_in),
                   MkLine(Alice, monday + d, Clock(9, 10, 0), Txt_out)>>
        again == <<MkLine(Alice, monday + d, Clock(13, 0, 0), Txt_back),
                   MkLine(Alice, monday + d, Clock(13, 50, 0), Txt_lunch)>>
        bob == <<MkLine(Bob, monday + d, Clock(9, 0, 0), Txt_in),
                 MkLine(Bob, monday + d, Clock(17, 20, 0), Txt_out)>>
    IN  IF pat = "full" THEN alice
        ELSE IF pat = "split" THEN (IF d < 4 THEN alice ELSE bob)
        ELSE IF pat = "gap"
        THEN (IF d = 0 THEN alice \o again \o bob
              ELSE IF d < 6 THEN alice ELSE <<>>)
        ELSE <<>>

RECURSIVE CovWeekLines(_, _, _)
CovWeekLines(monday, d, pat) ==
    IF d < 0 THEN <<>>
    ELSE CovWeekLines(monday, d - 1, pat) \o CovDayLines(monday, d, pat)

RECURSIVE CovText(_, _)
CovText(f, w) ==
    IF w < 0 THEN <<>>
    ELSE CovText(f, w - 1) \o CovWeekLines(CovBase + 7 * w, 6, f[w])

CovTexts ==
    {CovText(f, NumCovWeeks - 1) : f \in [0..(NumCovWeeks - 1) -> CovPatterns]}
    \cup Baseline

----------------------------------------------------------------------------
(* The script as a state machine                                           *)

InitWith(texts) ==
    /\ file_text \in texts
    /\ pc = "parse"
    /\ ln = 0
    /\ records = <<>>
    /\ yielded = {}
    /\ df = <<>>
    /\ keys = <<>>
    /\ cur = <<>>
    /\ times = <<>>
    /\ messages = <<>>
    /\ i = 0
    /\ iters = 0
    /\ daily_records = <<>>
    /\ used = <<>>
    /\ weekly_summary = <<>>
    /\ last_week_df = <<>>
    /\ outcome = "none"

Init == InitWith(PairTexts)

\* lines 17-31: the line matches and a format parses: append the record
ParseAppend ==
    /\ pc = "parse" /\ ln < Len(file_text)
    /\ LineYields(file_text[ln + 1])
    /\ records' = Append(records, EventOf(file_text[ln + 1]))
    /\ yielded' = yielded \cup {ln + 1}
    /\ ln' = ln + 1
    /\ UNCHANGED <<file_text, pc, df, keys, cur, times, messages, i, iters,
                   daily_records, used, weekly_summary, last_week_df, outcome>>

\* lines 17-19, 32-33: no match, or ValueError from both formats: next line
ParseSkip ==
    /\ pc = "parse" /\ ln < Len(file_text)
    /\ ~LineYields(file_text[ln + 1])
    /\ ln' = ln + 1
    /\ UNCHANGED <<file_text, pc, records, yielded, df, keys, cur, times,
                   messages, i, iters, daily_records, used, weekly_summary,
                   last_week_df, outcome>>

\* lines 137-138
MainFormatIssue ==
    /\ pc = "parse" /\ ln = Len(file_text)
    /\ FormatIssueTest(records)
    /\ outcome' = "format issue"
    /\ pc' = "done"
    /\ UNCHANGED <<file_text, ln, records, yielded, df, keys, cur, times,
                   messages, i, iters, daily_records, used, weekly_summary,
                   last_week_df>>

\* lines 140, 42-52: filter, window, and form the groups
CalcStart ==
    /\ pc = "parse" /\ ln = Len(file_text)
    /\ ~FormatIssueTest(records)
    /\ df' = Windowed(records)
    /\ keys' = GroupKeys(df')
    /\ pc' = "groups"
    /\ UNCHANGED <<file_text, ln, records, yielded, cur, times, messages, i,
                   iters, daily_records, used, weekly_summary, last_week_df,
                   outcome>>

\* lines 52-56: take the next group and sort it by timestamp
GroupStart ==
    /\ pc = "groups" /\ keys # <<>>
    /\ LET g == GroupRows(df, Head(keys))
       IN  \E p \in SortedOrders(g) :
              /\ times' = [k \in 1..Len(g) |-> g[p[k]].timestamp]
              /\ messages' = [k \in 1..Len(g) |-> g[p[k]].message]
    /\ cur' = Head(keys)
    /\ keys' = Tail(keys)
    /\ i' = 0
    /\ iters' = 0
    /\ pc' = "pair"
    /\ UNCHANGED <<file_text, ln, records, yielded, df, daily_records, used,
                   weekly_summary, last_week_df, outcome>>

\* lines 57-74: the two messages pair: append a row, skip both
PairEmit ==
    /\ pc = "pair" /\ i < Len(messages) - 1
    /\ PairTest(messages[i + 1], messages[i + 2])
    /\ daily_records' =
          Append(daily_records,
                 DailyRow(cur[1], cur[2], times[i + 1], times[i + 2]))
    /\ used' = Append(used, [key |-> cur, a |-> i, b |-> i + 1,
                             t_in |-> times[i + 1], t_out |-> times[i + 2],
                             m_in |-> messages[i + 1],
                             m_out |-> messages[i + 2]])
    /\ i' = AfterPair(i)
    /\ iters' = iters + 1
    /\ UNCHANGED <<file_text, pc, ln, records, yielded, df, keys, cur, times,
                   messages, weekly_summary, last_week_df, outcome>>

\* lines 57-60, 75-76: they do not pair: skip the first
PairSkip ==
    /\ pc = "pair" /\ i < Len(messages) - 1
    /\ ~PairTest(messages[i + 1], messages[i + 2])
    /\ i' = AfterSkip(i)
    /\ iters' = iters + 1
    /\ UNCHANGED <<file_text, pc, ln, records, yielded, df, keys, cur, times,
                   messages, daily_records, used, weekly_summary,
                   last_week_df, outcome>>

\* line 57: the loop condition fails: back to the for loop
GroupEnd ==
    /\ pc = "pair" /\ ~(i < Len(messages) - 1)
    /\ pc' = "groups"
    /\ UNCHANGED <<file_text, ln, records, yielded, df, keys, cur, times,
                   messages, i, iters, daily_records, used, weekly_summary,
                   last_week_df, outcome>>

\* lines 78-89, 142-143: no row: empty summary, the warning
MainNoData ==
    /\ pc = "groups" /\ keys = <<>>
    /\ NoDataTest(daily_records)
    /\ weekly_summary' = <<>>
    /\ outcome' = "no data"
    /\ pc' = "done"
    /\ UNCHANGED <<file_text, ln, records, yielded, df, keys, cur, times,
                   messages, i, iters, daily_records, used, last_week_df>>

\* lines 78-89, 144-174: the summary, the success message, the timesheet
MainSuccess ==
    /\ pc = "groups" /\ keys = <<>>
    /\ ~NoDataTest(daily_records)
    /\ weekly_summary' = WeeklySummary(daily_records)
    /\ last_week_df' = get_last_week_data(daily_records)
    /\ outcome' = "success"
    /\ pc' = "done"
    /\ UNCHANGED <<file_text, ln, records, yielded, df, keys, cur, times,
                   messages, i, iters, daily_records, used>>

Next ==
    \/ ParseAppend
    \/ ParseSkip
    \/ MainFormatIssue
    \/ CalcStart
    \/ GroupStart
    \/ PairEmit
    \/ PairSkip
    \/ GroupEnd
    \/ MainNoData
    \/ MainSuccess

Spec == Init /\ [][Next]_vars

SpecParse == InitWith(ParseTexts) /\ [][Next]_vars

SpecWindow == InitWith(WinTexts) /\ [][Next]_vars

SpecWeeks == InitWith(CovTexts) /\ [][Next]_vars

----------------------------------------------------------------------------
(* Properties                                                              *)

\* whole-word membership in the IN-set {in, back, return}
InSetWord(m) ==
    ContainsWord(m, KW_in) \/ ContainsWord(m, KW_back)
    \/ ContainsWord(m, KW_return)

\* whole-word membership in the OUT-set {out, lunch}
OutSetWord(m) == ContainsWord(m, KW_out) \/ ContainsWord(m, KW_lunch)

\* C1: every Work Interval is built from an event whose message has one of
\* in, back, return as a whole word, followed by an event whose message has
\* one of out, lunch as a whole word; a keyword that occurs only inside a
\* longer word never makes an event count as clock-in or clock-out.
C1_WholeWordPairing ==
    \A k \in 1..Len(used) :
        InSetWord(used[k].m_in) /\ OutSetWord(used[k].m_out)

\* the intervals of the two-pointer greedy scan from index k, as index pairs
RECURSIVE GreedyScan(_, _)
GreedyScan(msgs, k) ==
    IF k + 1 >= Len(msgs) THEN <<>>
    ELSE IF InLike(msgs[k + 1]) /\ OutLike(msgs[k + 2])
    THEN << <<k, k + 1>> >> \o GreedyScan(msgs, k + 2)
    ELSE GreedyScan(msgs, k + 1)

\* the index pairs emitted so far for the group in hand
CurPairs ==
    LET mine == SelectSeq(used, LAMBDA u : u.key = cur)
    IN  [k \in 1..Len(mine) |-> <<mine[k].a, mine[k].b>>]

LoopOver == pc = "pair" /\ ~(i < Len(messages) - 1)

\* C2: on every sorted group the pairing loop ends after at most N - 1
\* iterations, and when it ends it has emitted exactly the intervals of the
\* two-pointer greedy scan; the messages in, in, out give one interval, made
\* of the second and the third event.
C2_GreedyScan ==
    /\ pc = "pair" => iters <= i /\ i <= Len(messages) + 1
    /\ pc = "pair" /\ Len(messages) >= 1 => iters <= Len(messages) - 1
    /\ LoopOver => CurPairs = GreedyScan(messages, 0)
    /\ LoopOver /\ messages = <<Txt_in, Txt_in, Txt_out>>
          => CurPairs = << <<1, 2>> >>

C2_Witness ==
    /\ LoopOver
    /\ messages = <<Txt_in, Txt_in, Txt_out>>
    /\ TsLess(times[1], times[2]) /\ TsLess(times[2], times[3])
    /\ iters = 2
    /\ CurPairs = << <<1, 2>> >>

UsedOf(key) == {k \in 1..Len(used) : used[k].key = key}

\* C3: no event is used in two Work Intervals, and a group of N events
\* gives at most floor(N / 2) intervals.
C3_NoReuse ==
    /\ \A j, k \in 1..Len(used) :
          j # k /\ used[j].key = used[k].key
             => {used[j].a, used[j].b} \cap {used[k].a, used[k].b} = {}
    /\ \A k \in 1..Len(used) : used[k].a # used[k].b
    /\ \A key \in {used[k].key : k \in 1..Len(used)} :
          Cardinality(UsedOf(key)) <= Len(GroupRows(df, key)) \div 2

C3_Witness ==
    /\ pc = "done"
    /\ \E j, k \in 1..Len(used) :
          /\ j # k /\ used[j].key = used[k].key
          /\ Len(GroupRows(df, used[j].key)) = 4
          /\ used[j].m_out = Txt_lob /\ used[k].m_in = Txt_lob

\* C4, as claimed: every Work Interval has its clock-in timestamp strictly
\* before its clock-out timestamp, also when events share a timestamp.
C4_StrictlyBefore ==
    \A k \in 1..Len(used) : TsLess(used[k].t_in, used[k].t_out)

\* C4, amended: every Work Interval has its clock-in timestamp at or before
\* its clock-out timestamp, on the same date, and Hours Worked is not
\* negative; two events with the same timestamp can give an interval of
\* zero hours.
C4_NotAfter ==
    /\ Len(used) = Len(daily_records)
    /\ \A k \in 1..Len(used) :
          /\ ~TsLess(used[k].t_out, used[k].t_in)
          /\ used[k].t_in.ord = used[k].t_out.ord
          /\ daily_records[k].Hours >= 0
          /\ TsLess(used[k].t_in, used[k].t_out)
                => DurationSeconds(used[k].t_in, used[k].t_out) > 0

C4_Witness ==
    \E k \in 1..Len(used) :
        /\ used[k].t_in = used[k].t_out
        /\ daily_records[k].Hours = 0
        /\ daily_records[k].ClockIn = daily_records[k].ClockOut

Calculated == pc \in {"groups", "pair"} \/ (pc = "done" /\ outcome # "format issue")

\* the parsed events whose message has a keyword as a whole word
KeywordEvents ==
    {k \in 1..Len(records) :
        InSetWord(records[k].message) \/ OutSetWord(records[k].message)}

\* the ISO (year, week) pairs of the keyword events later than p
LaterWeeks(p) ==
    {q \in {IsoYearWeek(records[k].timestamp.ord) : k \in KeywordEvents} :
        q[1] > p[1] \/ (q[1] = p[1] /\ q[2] > p[2])}

InWindow(ord) == Cardinality(LaterWeeks(IsoYearWeek(ord))) < 4

\* C5: a keyword-matching event survives windowing exactly when its own ISO
\* (year, week) is among the 4 greatest distinct ISO (year, week) pairs of
\* the keyword-matching events of all persons, and no row of the Daily Work
\* Log or of the Weekly Summary comes from an event of an older week.
C5_LatestFourWeeks ==
    Calculated =>
        /\ df = SelectSeq(records,
                   LAMBDA e : /\ InSetWord(e.message) \/ OutSetWord(e.message)
                              /\ InWindow(e.timestamp.ord))
        /\ \A k \in 1..Len(used) :
              InWindow(used[k].t_in.ord) /\ InWindow(used[k].t_out.ord)
        /\ \A k \in 1..Len(weekly_summary) :
              \E j \in 1..Len(used) :
                  /\ InWindow(used[j].t_in.ord)
                  /\ get_week_range(used[j].t_in.ord) = weekly_summary[k].Week

C5_Witness ==
    /\ pc = "done" /\ outcome = "success"
    /\ Cardinality({IsoYearWeek(records[k].timestamp.ord) :
                       k \in KeywordEvents}) = 6
    /\ Cardinality({IsoYearWeek(df[k].timestamp.ord) : k \in 1..Len(df)}) = 4
    /\ Len(df) < Cardinality(KeywordEvents)
    /\ Len(daily_records) = 4

RECURSIVE SumAt(_, _)
SumAt(S, rows) ==
    IF S = {} THEN 0
    ELSE LET k == CHOOSE x \in S : TRUE
         IN  rows[k].Hours + SumAt(S \ {k}, rows)

\* the rows at the positions S, in row order
RowsAt(S, rows) ==
    LET at == SelectSeq([k \in 1..Len(rows) |-> k], LAMBDA k : k \in S)
    IN  [k \in 1..Len(at) |-> rows[at[k]]]

\* float64 values less than 2^-40 hours apart
Near(x, y) == BinaryDigits(ExactAdd(x, FNeg(y)).mag) <= 20

\* total is the float64 sum, in row order, of the Hours Worked at the
\* positions S, and is that close to the float64 of their decimal sum
IsSumOf(total, S, rows) ==
    /\ total = SumHours(RowsAt(S, rows))
    /\ Near(total, HoursFloat(SumAt(S, rows)))

NameWeeks == {<<daily_records[k].Name, daily_records[k].Week>> :
                 k \in 1..Len(daily_records)}

\* C6: the Weekly Summary has exactly one row for each (Name, Week label)
\* of the Daily Work Log, and its Total Hours is the sum of the rounded
\* Hours Worked of the Daily Work Log rows with that Name and Week label: a
\* float64 sum of float64 values, less than 2^-40 hours from the decimal sum.
C6_WeeklyTotals ==
    pc = "done" /\ outcome = "success" =>
        /\ {<<weekly_summary[k].Name, weekly_summary[k].Week>> :
               k \in 1..Len(weekly_summary)} = NameWeeks
        /\ Len(weekly_summary) = Cardinality(NameWeeks)
        /\ \A k \in 1..Len(weekly_summary) :
              IsSumOf(weekly_summary[k].TotalHours,
                      {j \in 1..Len(daily_records) :
                          /\ daily_records[j].Name = weekly_summary[k].Name
                          /\ daily_records[j].Week = weekly_summary[k].Week},
                      daily_records)

RECURSIVE SecondsAt(_)
SecondsAt(S) ==
    IF S = {} THEN 0
    ELSE LET k == CHOOSE x \in S : TRUE
         IN  DurationSeconds(used[k].t_in, used[k].t_out) + SecondsAt(S \ {k})

\* a person with rows in two weeks, and a total that is far from the rounding
\* of the summed durations and is not the float64 of the decimal sum either
C6_Witness ==
    /\ pc = "done" /\ outcome = "success"
    /\ \E j, k \in 1..Len(weekly_summary) :
          LET mine == {r \in 1..Len(daily_records) :
                          /\ daily_records[r].Name = weekly_summary[k].Name
                          /\ daily_records[r].Week = weekly_summary[k].Week}
          IN  /\ j # k /\ weekly_summary[j].Name = weekly_summary[k].Name
              /\ ~Near(weekly_summary[k].TotalHours,
                       HoursFloat(RoundHours(SecondsAt(mine))))
              /\ weekly_summary[k].TotalHours
                    # HoursFloat(SumAt(mine, daily_records))

NoLineParses ==
    \A k \in 1..Len(file_text) :
        ~(StructMatch(file_text[k])
          /\ (StrptimeNoSec(file_text[k]) \/ StrptimeSec(file_text[k])))

\* C7: no step of the script is stuck before the end, and the run ends in
\* exactly one of three outcomes: format issue exactly when no line gave an
\* Event; no data exactly when some line gave an Event and no Work Interval
\* was made; success otherwise, with the Daily Work Log and the Weekly
\* Summary shown.  An empty timesheet is no error.
C7_Outcomes ==
    /\ pc \in {"parse", "groups", "pair", "done"}
    /\ pc = "parse" => ln <= Len(file_text)
    /\ pc = "groups" /\ keys # <<>> =>
          SortedOrders(GroupRows(df, Head(keys))) # {}
    /\ pc = "pair" => i >= 0
    /\ pc # "done" => outcome = "none"
    /\ pc = "done" =>
          /\ outcome \in {"format issue", "no data", "success"}
          /\ outcome = "format issue" <=> NoLineParses
          /\ outcome = "no data" <=> ~NoLineParses /\ used = <<>>
          /\ outcome = "success" <=> used # <<>>
          /\ outcome = "success" =>
                daily_records # <<>> /\ weekly_summary # <<>>

C7_Witness ==
    /\ pc = "done" /\ outcome = "success"
    /\ daily_records # <<>> /\ last_week_df = <<>>

\* the ISO weeks of the Daily Work Log in which every weekday has a row
CompleteWeeks ==
    {yw \in {IsoYearWeek(used[k].t_in.ord) : k \in 1..Len(used)} :
        \A wd \in 0..6 :
            \E k \in 1..Len(used) :
                /\ IsoYearWeek(used[k].t_in.ord) = yw
                /\ Weekday(used[k].t_in.ord) = wd}

IsLatestComplete(yw) ==
    /\ yw \in CompleteWeeks
    /\ \A q \in CompleteWeeks :
          ~(q[1] > yw[1] \/ (q[1] = yw[1] /\ q[2] > yw[2]))

\* the columns a timesheet row shares with a Daily Work Log row
Shared(r) ==
    [Name |-> r.Name, Date |-> r.Date, Day |-> r.Day, ClockIn |-> r.ClockIn,
     ClockOut |-> r.ClockOut, Hours |-> r.Hours]

\* the positions in the Daily Work Log of the rows of ISO week yw
RowsOfWeek(yw) ==
    SelectSeq([k \in 1..Len(used) |-> k],
              LAMBDA k : IsoYearWeek(used[k].t_in.ord) = yw)

\* C8: the timesheet holds exactly the Daily Work Log rows of the most recent
\* ISO week in which each weekday Monday..Sunday has a row, in their order;
\* it is empty when no week has all 7 weekdays, even when a more recent,
\* incomplete week has rows.
C8_LastCompleteWeek ==
    pc = "done" /\ outcome = "success" =>
        /\ CompleteWeeks = {} => last_week_df = <<>>
        /\ \A yw \in CompleteWeeks :
              IsLatestComplete(yw) =>
                 /\ Len(last_week_df) = Len(RowsOfWeek(yw))
                 /\ \A k \in 1..Len(last_week_df) :
                       Shared(last_week_df[k])
                          = Shared(daily_records[RowsOfWeek(yw)[k]])

C8_Witness ==
    /\ pc = "done" /\ outcome = "success"
    /\ last_week_df # <<>>
    /\ \E yw \in CompleteWeeks :
          /\ IsLatestComplete(yw)
          /\ \E k \in 1..Len(used) :
                LET w == IsoYearWeek(used[k].t_in.ord)
                IN  w \notin CompleteWeeks
                    /\ (w[1] > yw[1] \/ (w[1] = yw[1] /\ w[2] > yw[2]))
          /\ \E q \in CompleteWeeks : q # yw

SheetRowsOf(name) == {k \in 1..Len(last_week_df) : last_week_df[k].Name = name}

\* each person's first timesheet row shows the sum of the person's Hours
\* Worked in the timesheet (a float64 sum, less than 2^-40 hours from the
\* decimal sum), the person's other rows show nothing
TotalsOnFirstRows ==
    \A k \in 1..Len(last_week_df) :
        LET mine == SheetRowsOf(last_week_df[k].Name)
        IN  IF \A j \in mine : k <= j
            THEN /\ Len(last_week_df[k].TotalHoursThisWeek) = 1
                 /\ IsSumOf(last_week_df[k].TotalHoursThisWeek[1],
                            mine, last_week_df)
            ELSE last_week_df[k].TotalHoursThisWeek = <<>>

\* the timesheet's rows are rows of the Daily Work Log, column by column
Columns(r, cols) == [c \in cols |-> r[c]]

\* C9, as claimed: one row per person, the first, carries the person's total
\* and the others an empty value; apart from that column the rows are rows
\* of the Daily Work Log, with all of its columns.
C9_TotalsAndAllColumns ==
    /\ TotalsOnFirstRows
    /\ \A k \in 1..Len(last_week_df) :
          \E j \in 1..Len(daily_records) :
              Columns(last_week_df[k],
                      DOMAIN last_week_df[k] \ {"TotalHoursThisWeek"})
                 = daily_records[j]

\* C9, amended: one row per person, the first, carries the person's total
\* and the others an empty value; apart from that column the rows are rows
\* of the Daily Work Log without its Week column, which the timesheet lacks.
C9_TotalsAndColumnsButWeek ==
    /\ TotalsOnFirstRows
    /\ \A k \in 1..Len(last_week_df) :
          /\ DOMAIN last_week_df[k] =
                (DOMAIN daily_records[1] \ {"Week"}) \cup {"TotalHoursThisWeek"}
          /\ \E j \in 1..Len(daily_records) :
                Columns(last_week_df[k],
                        DOMAIN last_week_df[k] \ {"TotalHoursThisWeek"})
                   = Columns(daily_records[j], DOMAIN daily_records[j] \ {"Week"})

C9_Witness ==
    /\ pc = "done" /\ outcome = "success"
    /\ \E name \in {last_week_df[k].Name : k \in 1..Len(last_week_df)} :
          /\ Cardinality(SheetRowsOf(name)) >= 3
          /\ Cardinality({k \in SheetRowsOf(name) :
                             last_week_df[k].TotalHoursThisWeek = <<>>})
                = Cardinality(SheetRowsOf(name)) - 1
    /\ Cardinality({last_week_df[k].Name : k \in 1..Len(last_week_df)}) = 2
    /\ \E k \in 1..Len(last_week_df) :
          /\ last_week_df[k].TotalHoursThisWeek # <<>>
          /\ last_week_df[k].TotalHoursThisWeek[1] #
                HoursFloat(SumAt(SheetRowsOf(last_week_df[k].Name), last_week_df))

\* %Y with the other directives of "%m/%d/%Y %I:%M:%S %p"
StrptimeSecYear4(l) ==
    /\ Dir_m(l.mm) /\ Dir_d(l.dd) /\ Len(l.yy) = 4 /\ NumVal(l.yy) >= 1
    /\ l.sp \in Whitespace
    /\ Dir_I(l.hh) /\ Dir_M(l.mi) /\ l.ss # <<>> /\ NumVal(l.ss) <= 59
    /\ Dir_p(l.ap)
    /\ NumVal(l.dd) <= DaysInMonth(NumVal(l.yy), NumVal(l.mm))

\* C10: a line matching the bracketed pattern yields an Event exactly when
\* its date and time are accepted by one of: 2-digit year with seconds,
\* 4-digit year with seconds, 12-hour time without seconds; so a line with a
\* 4-digit year and a valid H:MM:SS AM/PM time yields an Event.  Any other
\* line yields nothing and does not stop the lines after it.
C10_FormatCandidates ==
    /\ \A k \in 1..ln :
          k \in yielded <=>
             /\ StructMatch(file_text[k])
             /\ \/ StrptimeSec(file_text[k])
                \/ StrptimeSecYear4(file_text[k])
                \/ StrptimeNoSec(file_text[k])
    /\ Len(records) = Cardinality(yielded)
    /\ pc = "parse" => ln <= Len(file_text)

====
